---- MODULE Spec2Model ----
(***************************************************************************)
(* Model of my_utility_package: the configuration loader (config_loader),  *)
(* the API-key guard (check_api_key_decorator), the dummy-response guard   *)
(* (conditioned_dummy_response_decorator) and the database gateway         *)
(* (database_connection).                                                  *)
(*                                                                         *)
(* Representation of Python values:                                        *)
(*   str   a sequence of lexemes; "" is << >>.  A lexeme is a punctuation  *)
(*         mark of the JSON grammar, the double quote, the word null, or a *)
(*         run of ordinary characters.                                     *)
(*   None  the record None; an optional str is None or Some(s).            *)
(*   dict  a function whose DOMAIN is the set of keys.                     *)
(***************************************************************************)
EXTENDS Integers, Sequences, FiniteSets, TLC

\* ------------------------------------------------------------------ bounds
MaxConstructions == 2

MaxHandleCalls == 1

\* ------------------------------------------------------- python primitives
None == [isNone |-> TRUE, s |-> << >>]

Some(s) == [isNone |-> FALSE, s |-> s]

EmptyDict == [k \in {} |-> << >>]

\* dict.update(other): every key of other overwrites, the rest is kept
DictUpdateKeepOld(d, e) ==
  [k \in DOMAIN d \cup DOMAIN e |-> IF k \in DOMAIN d THEN d[k] ELSE e[k]]

DictUpdate(d, e) ==
  [k \in DOMAIN d \cup DOMAIN e |-> IF k \in DOMAIN e THEN e[k] ELSE d[k]]

\* dict.get(key): None when the key is missing
DictGet(d, k) == IF k \in DOMAIN d THEN Some(d[k]) ELSE None

\* --------------------------------------------------------------- constants
AWS_DEFAULT_REGION == <<"AWS_DEFAULT_REGION">>

SHARED_SECRET_NAMES_LIST == <<"SHARED_SECRET_NAMES_LIST">>

Q == "\""

\* ------------------------------------------------------------- json.loads
JsonError == [kind |-> "error", list |-> << >>, dict |-> EmptyDict]

JsonList(l) == [kind |-> "list", list |-> l, dict |-> EmptyDict]

JsonDict(d) == [kind |-> "dict", list |-> << >>, dict |-> d]

RECURSIVE CloseQuote(_, _)
\* index of the first double quote at or after j, 0 when there is none
CloseQuote(t, j) ==
  IF j > Len(t) THEN 0 ELSE IF t[j] = Q THEN j ELSE CloseQuote(t, j + 1)

\* a string literal starting at t[i]: its content and the index after it
ScanString(t, i) ==
  IF i > Len(t) \/ t[i] # Q
  THEN [ok |-> FALSE, s |-> << >>, next |-> 0]
  ELSE LET j == CloseQuote(t, i + 1)
       IN IF j = 0 THEN [ok |-> FALSE, s |-> << >>, next |-> 0]
          ELSE [ok |-> TRUE, s |-> SubSeq(t, i + 1, j - 1), next |-> j + 1]

RECURSIVE ScanItems(_, _, _)
\* the elements of an array from t[i] on: string literals or null, separated
\* by commas, closed by the bracket that ends the text
ScanItems(t, i, acc) ==
  LET el == IF i <= Len(t) /\ t[i] = "null"
            THEN [ok |-> TRUE, item |-> None, next |-> i + 1]
            ELSE LET r == ScanString(t, i)
                 IN [ok |-> r.ok, item |-> Some(r.s), next |-> r.next]
  IN IF ~el.ok \/ el.next > Len(t) THEN JsonError
     ELSE IF t[el.next] = ","
          THEN ScanItems(t, el.next + 1, Append(acc, el.item))
     ELSE IF t[el.next] = "]" /\ el.next = Len(t)
          THEN JsonList(Append(acc, el.item))
     ELSE JsonError

RECURSIVE ScanPairs(_, _, _)
\* the members of an object from t[i] on: "key":"value" pairs; a repeated
\* key keeps the value of its last occurrence
ScanPairs(t, i, acc) ==
  LET k == ScanString(t, i)
  IN IF ~k.ok \/ k.next > Len(t) \/ t[k.next] # ":" THEN JsonError
     ELSE LET v == ScanString(t, k.next + 1)
              d == [x \in DOMAIN acc \cup {k.s} |->
                      IF x = k.s THEN v.s ELSE acc[x]]
          IN IF ~v.ok \/ v.next > Len(t) THEN JsonError
             ELSE IF t[v.next] = "," THEN ScanPairs(t, v.next + 1, d)
             ELSE IF t[v.next] = "}" /\ v.next = Len(t) THEN JsonDict(d)
             ELSE JsonError

\* json.loads on the texts of the model: arrays of string literals and
\* nulls, objects of string literals; anything else does not decode
JsonLoads(t) ==
  IF Len(t) < 2 THEN JsonError
  ELSE IF t[1] = "[" THEN
         IF t[2] = "]" THEN (IF Len(t) = 2 THEN JsonList(<< >>) ELSE JsonError)
         ELSE ScanItems(t, 2, << >>)
  ELSE IF t[1] = "{" THEN
         IF t[2] = "}" THEN (IF Len(t) = 2 THEN JsonDict(EmptyDict) ELSE JsonError)
         ELSE ScanPairs(t, 2, EmptyDict)
  ELSE JsonError

\* ------------------------------------------------------------------ inputs
\* json.dumps of a list of names, as the tests build the name list
Lit(s) == <<Q>> \o s \o <<Q>>

T_empty == <<"[", "]">>

T_a == <<"[">> \o Lit(<<"a">>) \o <<"]">>

T_ab == <<"[">> \o Lit(<<"a">>) \o <<",">> \o Lit(<<"b">>) \o <<"]">>

T_ba == <<"[">> \o Lit(<<"b">>) \o <<",">> \o Lit(<<"a">>) \o <<"]">>

T_a_blank == <<"[">> \o Lit(<<"a">>) \o <<",">> \o Lit(<< >>) \o <<"]">>

T_null_a == <<"[", "null", ",">> \o Lit(<<"a">>) \o <<"]">>

T_aba ==
  <<"[">> \o Lit(<<"a">>) \o <<",">> \o Lit(<<"b">>) \o <<",">>
          \o Lit(<<"a">>) \o <<"]">>

T_broken == <<"[">> \o Lit(<<"a">>)

\* secret payloads: {"x":"1"}, {"x":"2","y":"3"}, a JSON array, not JSON
P_x1 == <<"{">> \o Lit(<<"x">>) \o <<":">> \o Lit(<<"1">>) \o <<"}">>

P_x2y3 ==
  <<"{">> \o Lit(<<"x">>) \o <<":">> \o Lit(<<"2">>) \o <<",">>
          \o Lit(<<"y">>) \o <<":">> \o Lit(<<"3">>) \o <<"}">>

P_array == <<"[">> \o Lit(<<"x">>) \o <<"]">>

P_garbage == <<"oops">>

\* what one call of the remote secret store can do: raise a client error,
\* raise another botocore error, hold no secret string, or return a text
RemoteOutcomes ==
  { [kind |-> "ClientError", text |-> << >>],
    [kind |-> "BotoCoreError", text |-> << >>],
    [kind |-> "None", text |-> << >>] }
  \cup { [kind |-> "text", text |-> t] :
           t \in { << >>, P_x1, P_x2y3, P_array, P_garbage } }

US == <<"us-west-2">>

\* a local source: no file at the path, a file that cannot be read, or the
\* KEY=value lines of a file
NoFile == [kind |-> "absent", lines |-> << >>]

Unreadable == [kind |-> "unreadable", lines |-> << >>]

File(lines) == [kind |-> "file", lines |-> lines]

Sources ==
  { NoFile, Unreadable,
    File(<< <<<<"x">>, <<"1">>>> >>),
    File(<< <<<<"x">>, <<"1">>>>, <<<<"x">>, <<"4">>>>, <<<<"y">>, <<"2">>>> >>),
    File(<< <<SHARED_SECRET_NAMES_LIST, T_ab>>, <<AWS_DEFAULT_REGION, US>>,
            <<<<"x">>, <<"1">>>> >>),
    File(<< <<SHARED_SECRET_NAMES_LIST, T_ba>>, <<AWS_DEFAULT_REGION, US>>,
            <<<<"y">>, <<"0">>>> >>),
    File(<< <<SHARED_SECRET_NAMES_LIST, T_aba>>, <<AWS_DEFAULT_REGION, US>> >>),
    File(<< <<SHARED_SECRET_NAMES_LIST, T_a_blank>>, <<AWS_DEFAULT_REGION, US>> >>),
    File(<< <<SHARED_SECRET_NAMES_LIST, T_null_a>>, <<AWS_DEFAULT_REGION, US>> >>),
    File(<< <<SHARED_SECRET_NAMES_LIST, T_a>> >>),
    File(<< <<SHARED_SECRET_NAMES_LIST, T_a>>, <<AWS_DEFAULT_REGION, << >>>> >>),
    File(<< <<SHARED_SECRET_NAMES_LIST, T_broken>>, <<AWS_DEFAULT_REGION, US>> >>),
    File(<< <<SHARED_SECRET_NAMES_LIST, T_empty>>, <<AWS_DEFAULT_REGION, US>> >>) }

\* the variables the process may hold before the first construction
AmbientEnvs ==
  { [k \in {<<"x">>} |-> <<"0">>],
    [k \in {SHARED_SECRET_NAMES_LIST, AWS_DEFAULT_REGION} |->
       IF k = SHARED_SECRET_NAMES_LIST THEN T_a ELSE US] }

\* ------------------------------------------------------------------- state
VARIABLES
  environ,           \* os.environ, the ambient process environment
  ambient,           \* os.environ as it was when the current load began
  config_file,       \* self.config_file, by what the path resolves to
  configurations,    \* self.configurations
  configuration,     \* _get_app_configuration: result of the local load
  shared_secrets,    \* _load_shared_secrets: the aggregate being built
  secret_name_list,  \* _load_shared_secrets: the decoded name list
  region_name,       \* _load_shared_secrets: the region read from the store
  idx,               \* position of the loop over secret_name_list, 0 outside
  remote_calls,      \* the requests made to the remote store, with outcomes
  fetched,           \* the mappings _handle_secrets_from_aws returned
  fault,             \* the exception raised inside the try block, if any
  result,            \* what ConfigLoader(config_file) gave its caller
  log,               \* lines printed by the except blocks
  pc,                \* position of the construction
  constructions,     \* number of constructions started
  handled,           \* the last call of _handle_secrets_from_aws
  handle_calls       \* calls of _handle_secrets_from_aws made on the loader

cfgvars ==
  <<environ, ambient, config_file, configurations, configuration,
    shared_secrets, secret_name_list, region_name, idx, remote_calls,
    fetched, fault, result, log, pc, constructions, handled, handle_calls>>

\* state of the guard of check_api_key
VARIABLES
  ag_wrapped,        \* the decorator has been applied
  ag_app_api_key,    \* func_param["APP_API_KEY"]
  ag_headers,        \* func_param["REQUEST_FROM_ENDPOINT"].headers
  ag_args,           \* the arguments of the last call of wrapper
  ag_invoked,        \* calls of func made by the last call of wrapper
  ag_func_args,      \* the arguments func was called with, if it was
  ag_func_result,    \* what func did in the last call of wrapper
  ag_outcome,        \* what the last call of wrapper gave its caller
  ag_calls           \* number of calls of wrapper

agvars ==
  <<ag_wrapped, ag_app_api_key, ag_headers, ag_args, ag_invoked,
    ag_func_args, ag_func_result, ag_outcome, ag_calls>>

\* state of the guard of conditioned_dummy_response
VARIABLES
  bg_wrapped,        \* the decorator has been applied
  bg_dummy_active,   \* func_param["DUMMY_ACTIVE"]
  bg_dummy_response, \* func_param["DUMMY_RESPONSE"]
  bg_invoked,        \* calls of route_func made by the last call of wrapper
  bg_func_result,    \* what route_func did in the last call of wrapper
  bg_outcome,        \* what the last call of wrapper gave its caller
  bg_calls           \* number of calls of wrapper

bgvars ==
  <<bg_wrapped, bg_dummy_active, bg_dummy_response, bg_invoked,
    bg_func_result, bg_outcome, bg_calls>>

\* state of DatabaseConnection
VARIABLES
  app_config,        \* self.app_config
  engine,            \* self.engine: None or the engine created
  session_factory,   \* self.session_factory: None or the sessionmaker
  metadata,          \* self.metadata: None or the reflected Base
  db_connected,      \* what engine.connect() gave in this construction
  db_result,         \* what DatabaseConnection(app_config) gave its caller
  db_pc,             \* position of the construction
  db_session,        \* what the last get_session() gave its caller
  db_sessions,       \* number of calls of get_session on this object
  db_constructions   \* number of constructions started

dbvars ==
  <<app_config, engine, session_factory, metadata, db_connected, db_result,
    db_pc, db_session, db_sessions, db_constructions>>

NoError == "none"

Pending == [kind |-> "pending", error |-> NoError]

Returned == [kind |-> "store", error |-> NoError]

\* -------------------------------------------------------------- load_dotenv
RECURSIVE DotenvValues(_)
\* the bindings of a file; a key bound twice has its last value
DotenvValues(lines) ==
  IF lines = << >> THEN EmptyDict
  ELSE LET n == Len(lines)
           rest == DotenvValues(SubSeq(lines, 1, n - 1))
       IN [k \in DOMAIN rest \cup {lines[n][1]} |->
             IF k = lines[n][1] THEN lines[n][2] ELSE rest[k]]

\* load_dotenv(path) with override=True
LoadDotenvOverride(env, src) ==
  LET vals == DotenvValues(src.lines)
  IN [k \in DOMAIN env \cup DOMAIN vals |->
        IF k \in DOMAIN vals THEN vals[k] ELSE env[k]]

\* the bindings of the file read without being exported to os.environ
LoadDotenvNoExport(env, src) == env

\* load_dotenv(path), override=False: a variable the environment already
\* holds keeps its value, every other binding of the file is exported
LoadDotenv(env, src) ==
  LET vals == DotenvValues(src.lines)
  IN [k \in DOMAIN env \cup DOMAIN vals |->
        IF k \in DOMAIN env THEN env[k] ELSE vals[k]]

\* --------------------------------------------------------- exception paths
\* an except block that logs and swallows
ExceptSwallow(error) == Returned

\* _get_app_configuration, except Exception: log, then raise error
GetAppConfigurationExcept(error) == [kind |-> "raised", error |-> error]

Raise(error) ==
  /\ fault' = error
  /\ result' = GetAppConfigurationExcept(error)
  /\ pc' = IF result'.kind = "raised" THEN "failed" ELSE "done"

\* ---------------------------------------------------------- _retrieve_from_aws
RetRaise(e, printed) ==
  [kind |-> "raise", error |-> e, text |-> << >>, printed |-> printed]

RetText(t) ==
  [kind |-> "text", error |-> NoError, text |-> t, printed |-> FALSE]

RetNoString ==
  [kind |-> "None", error |-> NoError, text |-> << >>, printed |-> FALSE]

\* a client error turned into an empty payload
RetrieveFromAwsLenient(out) ==
  IF out.kind = "ClientError" THEN RetText(<< >>)
  ELSE IF out.kind = "BotoCoreError" THEN RetRaise("BotoCoreError", FALSE)
  ELSE IF out.kind = "None" THEN RetNoString
  ELSE RetText(out.text)

\* cache.get_secret_string(secret_name); a ClientError is printed and raised
\* again, any other exception passes through
RetrieveFromAws(out) ==
  IF out.kind = "ClientError" THEN RetRaise("ClientError", TRUE)
  ELSE IF out.kind = "BotoCoreError" THEN RetRaise("BotoCoreError", FALSE)
  ELSE IF out.kind = "None" THEN RetNoString
  ELSE RetText(out.text)

\* ---------------------------------------------------- _handle_secrets_from_aws
HRaise(e, printed) ==
  [kind |-> "raise", error |-> e, dict |-> EmptyDict, called |-> TRUE,
   printed |-> printed]

HNone(called) ==
  [kind |-> "None", error |-> NoError, dict |-> EmptyDict, called |-> called,
   printed |-> FALSE]

HDict(d) ==
  [kind |-> "dict", error |-> NoError, dict |-> d, called |-> TRUE,
   printed |-> FALSE]

\* the None tests alone, without the tests of the lengths
HandleSecretsFromAwsNoLenTest(secret_name, region_name_, out) ==
  IF secret_name.isNone \/ region_name_.isNone THEN HNone(FALSE)
  ELSE LET aws_data == RetrieveFromAws(out)
       IN IF aws_data.kind = "raise"
          THEN HRaise(aws_data.error, aws_data.printed)
          ELSE IF aws_data.kind = "None" THEN HNone(TRUE)
          ELSE IF Len(aws_data.text) > 0 THEN
                 LET secrets == JsonLoads(aws_data.text)
                 IN IF secrets.kind = "error" THEN HRaise("JSONDecodeError", FALSE)
                    ELSE IF secrets.kind = "list" THEN HRaise("AttributeError", FALSE)
                    ELSE HDict(secrets.dict)
          ELSE HDict(EmptyDict)

\* the result is None for a missing or empty name or region and for a secret
\* without a string; a decoded list has no items(); else the decoded mapping
HandleSecretsFromAws(secret_name, region_name_, out) ==
  IF secret_name.isNone \/ region_name_.isNone THEN HNone(FALSE)
  ELSE IF Len(secret_name.s) > 0 /\ Len(region_name_.s) > 0 THEN
    LET aws_data == RetrieveFromAws(out)
    IN IF aws_data.kind = "raise" THEN HRaise(aws_data.error, aws_data.printed)
       ELSE IF aws_data.kind = "None" THEN HNone(TRUE)
       ELSE IF Len(aws_data.text) > 0 THEN
              LET secrets == JsonLoads(aws_data.text)
              IN IF secrets.kind = "error" THEN HRaise("JSONDecodeError", FALSE)
                 ELSE IF secrets.kind = "list" THEN HRaise("AttributeError", FALSE)
                 ELSE HDict(secrets.dict)
       ELSE HDict(EmptyDict)
  ELSE HNone(FALSE)

\* ------------------------------------------------------------ _load_shared_secrets
\* the name list read from the store, with a default when the key is absent
EnvListDefault(cfg) ==
  IF SHARED_SECRET_NAMES_LIST \in DOMAIN cfg
  THEN Some(cfg[SHARED_SECRET_NAMES_LIST]) ELSE Some(T_a)

\* env_list = self.configurations.get(SHARED_SECRET_NAMES_LIST)
EnvList(cfg) == DictGet(cfg, SHARED_SECRET_NAMES_LIST)

\* the loop taken from the last entry to the first
SecretNameReversed(list, i) == list[Len(list) + 1 - i]

\* for secret_name in secret_name_list: the entry of the i-th iteration
SecretName(list, i) == list[i]

\* --------------------------------------------------------------- ConfigLoader
\* no call of _handle_secrets_from_aws yet on this loader
NotHandled ==
  [made |-> FALSE, secret_name |-> None, region_name |-> None,
   kind |-> "none", error |-> NoError, requests |-> 0]

\* a call of _handle_secrets_from_aws: its arguments, what it gave (None, a
\* dict or a raise) and the number of requests it made to the remote store
Handled(secret_name, region_name_, r) ==
  [made |-> TRUE, secret_name |-> secret_name, region_name |-> region_name_,
   kind |-> r.kind, error |-> r.error,
   requests |-> IF r.called THEN 1 ELSE 0]

\* the names and regions a caller may pass, None and "" included
SecretArgs == { None, Some(<< >>), Some(<<"a">>) }

RegionArgs == { None, Some(<< >>), Some(US) }

\* the host sets variables of the process before it constructs a loader:
\* os.environ[SHARED_SECRET_NAMES_LIST] = ..., os.environ[AWS_DEFAULT_REGION] = ...
SetEnviron ==
  /\ pc = "idle"
  /\ environ = EmptyDict
  /\ \E env \in AmbientEnvs : environ' = env
  /\ ambient' = environ'
  /\ UNCHANGED <<config_file, configurations, configuration, shared_secrets,
                 secret_name_list, region_name, idx, remote_calls, fetched,
                 fault, result, log, pc, constructions>>
  /\ UNCHANGED <<handled, handle_calls>>
  /\ UNCHANGED <<agvars, bgvars, dbvars>>

\* ConfigLoader(config_file): __init__ up to the call of
\* _get_app_configuration; each construction is a new object
Construct ==
  /\ pc \in {"idle", "done", "failed"}
  /\ constructions < MaxConstructions
  /\ \E src \in Sources : config_file' = src
  /\ configurations' = EmptyDict
  /\ configuration' = EmptyDict
  /\ shared_secrets' = EmptyDict
  /\ secret_name_list' = << >>
  /\ region_name' = None
  /\ idx' = 0
  /\ remote_calls' = << >>
  /\ fetched' = << >>
  /\ fault' = NoError
  /\ result' = Pending
  /\ log' = << >>
  /\ pc' = "load_env"
  /\ constructions' = constructions + 1
  /\ ambient' = environ
  /\ UNCHANGED environ
  /\ handled' = NotHandled
  /\ handle_calls' = 0
  /\ UNCHANGED <<agvars, bgvars, dbvars>>

\* _load_configuration_from_env and the update of the store with its result
LoadConfigurationFromEnv ==
  /\ pc = "load_env"
  /\ ambient' = environ
  /\ IF config_file.kind = "unreadable"
     THEN /\ Raise("OSError")
          /\ log' = Append(log, "_get_app_configuration")
          /\ UNCHANGED <<environ, configuration, configurations>>
     ELSE /\ environ' = LoadDotenv(environ, config_file)
          /\ configuration' = [k \in DOMAIN environ' |-> environ'[k]]
          /\ configurations' = DictUpdate(configurations, configuration')
          /\ pc' = "load_secrets"
          /\ UNCHANGED <<fault, result, log>>
  /\ UNCHANGED <<config_file, shared_secrets, secret_name_list, region_name,
                 idx, remote_calls, fetched, constructions>>
  /\ UNCHANGED <<handled, handle_calls>>
  /\ UNCHANGED <<agvars, bgvars, dbvars>>

\* _load_shared_secrets up to the loop: without a name list it returns the
\* empty aggregate, which the store is updated with; else the list is decoded
LoadSharedSecretsBegin ==
  /\ pc = "load_secrets"
  /\ region_name' = DictGet(configurations, AWS_DEFAULT_REGION)
  /\ LET env_list == EnvList(configurations)
     IN IF env_list.isNone
        THEN /\ configurations' = DictUpdate(configurations, shared_secrets)
             /\ result' = Returned
             /\ pc' = "done"
             /\ UNCHANGED <<secret_name_list, idx, fault, log>>
        ELSE LET decoded == JsonLoads(env_list.s)
             IN IF decoded.kind = "list"
                THEN /\ secret_name_list' = decoded.list
                     /\ idx' = 1
                     /\ pc' = "fetch"
                     /\ UNCHANGED <<configurations, fault, result, log>>
                ELSE /\ decoded.kind = "error"
                     /\ Raise("JSONDecodeError")
                     /\ log' = Append(log, "_get_app_configuration")
                     /\ UNCHANGED <<configurations, secret_name_list, idx>>
  /\ UNCHANGED <<environ, ambient, config_file, configuration, shared_secrets,
                 remote_calls, fetched, constructions>>
  /\ UNCHANGED <<handled, handle_calls>>
  /\ UNCHANGED <<agvars, bgvars, dbvars>>

\* one iteration of the loop:
\* shared_secrets.update(self._handle_secrets_from_aws(secret_name, region_name))
FetchSecret ==
  /\ pc = "fetch"
  /\ idx <= Len(secret_name_list)
  /\ \E out \in RemoteOutcomes :
       LET secret_name == SecretName(secret_name_list, idx)
           r == HandleSecretsFromAws(secret_name, region_name, out)
           printed == IF r.printed
                      THEN Append(log, "_retrieve_configured_aws_secrets")
                      ELSE log
       IN /\ remote_calls' =
               IF r.called
               THEN Append(remote_calls,
                           [name |-> secret_name.s, region |-> region_name.s,
                            outcome |-> out.kind])
               ELSE remote_calls
          /\ handled' = Handled(secret_name, region_name, r)
          /\ IF r.kind = "raise"
             THEN /\ Raise(r.error)
                  /\ log' = Append(printed, "_get_app_configuration")
                  /\ UNCHANGED <<shared_secrets, fetched, idx>>
             ELSE IF r.kind = "None"
             THEN /\ Raise("TypeError")
                  /\ log' = Append(printed, "_get_app_configuration")
                  /\ UNCHANGED <<shared_secrets, fetched, idx>>
             ELSE /\ shared_secrets' = DictUpdate(shared_secrets, r.dict)
                  /\ fetched' = Append(fetched, r.dict)
                  /\ idx' = idx + 1
                  /\ UNCHANGED <<fault, result, log, pc>>
  /\ UNCHANGED <<environ, ambient, config_file, configurations, configuration,
                 secret_name_list, region_name, constructions>>
  /\ UNCHANGED handle_calls
  /\ UNCHANGED <<agvars, bgvars, dbvars>>

\* loader._handle_secrets_from_aws(secret_name, region_name) called on a
\* loader that construction returned
HandleSecretsCall ==
  /\ pc = "done"
  /\ handle_calls < MaxHandleCalls
  /\ handle_calls' = handle_calls + 1
  /\ \E secret_name \in SecretArgs, region \in RegionArgs,
        out \in RemoteOutcomes :
       LET r == HandleSecretsFromAws(secret_name, region, out)
       IN /\ handled' = Handled(secret_name, region, r)
          /\ log' = IF r.printed
                    THEN Append(log, "_retrieve_configured_aws_secrets")
                    ELSE log
  /\ UNCHANGED <<environ, ambient, config_file, configurations, configuration,
                 shared_secrets, secret_name_list, region_name, idx,
                 remote_calls, fetched, fault, result, pc, constructions>>
  /\ UNCHANGED <<agvars, bgvars, dbvars>>

\* the loop is over: return shared_secrets, and the store is updated with it
LoadSharedSecretsReturn ==
  /\ pc = "fetch"
  /\ idx > Len(secret_name_list)
  /\ configurations' = DictUpdate(configurations, shared_secrets)
  /\ result' = Returned
  /\ pc' = "done"
  /\ UNCHANGED <<environ, ambient, config_file, configuration, shared_secrets,
                 secret_name_list, region_name, idx, remote_calls, fetched,
                 fault, log, constructions>>
  /\ UNCHANGED <<handled, handle_calls>>
  /\ UNCHANGED <<agvars, bgvars, dbvars>>

CfgNext ==
  \/ SetEnviron
  \/ Construct
  \/ LoadConfigurationFromEnv
  \/ LoadSharedSecretsBegin
  \/ FetchSecret
  \/ LoadSharedSecretsReturn
  \/ HandleSecretsCall

\* -------------------------------------------------- check_api_key_decorator
X_API_KEY == <<"X-API-Key">>

INVALID_OR_MISSING_API_KEY == <<"API key is invalid or is missing.">>

MaxCalls == 3

NoOutcome == [kind |-> "none", value |-> << >>, error |-> NoError, message |-> << >>]

Return(v) == [kind |-> "return", value |-> v, error |-> NoError, message |-> << >>]

Raised(e, m) == [kind |-> "raise", value |-> << >>, error |-> e, message |-> m]

\* the keys the application may expect, None included
AppApiKeys == { None, Some(<<"k">>), Some(<< >>) }

\* the headers of a request
RequestHeaders ==
  { EmptyDict,
    [h \in {<<"Authorization">>} |-> <<"k">>] }
  \cup { [h \in {X_API_KEY} |-> v] : v \in { <<"k">>, <<"K">>, << >> } }

CallArgs == { <<"1">>, <<"2">> }

\* what the wrapped function does with its arguments
FuncResults(args) ==
  { Return(<<"Function executed">> \o args), Return(<< >>),
    Raised("RuntimeError", <<"func failed">>) }

\* the comparison taken without the None tests: None equals None
ApiKeyAcceptedNoNoneTest(api_key_header_value, app_api_key) ==
  /\ api_key_header_value.isNone = app_api_key.isNone
  /\ api_key_header_value.s = app_api_key.s

\* api_key_header_value is not None and APP_API_KEY is not None, and
\* api_key_header_value == APP_API_KEY
ApiKeyAccepted(api_key_header_value, app_api_key) ==
  /\ ~api_key_header_value.isNone /\ ~app_api_key.isNone
  /\ api_key_header_value.s = app_api_key.s

\* check_api_key(REQUEST_FROM_ENDPOINT=request, APP_API_KEY=key)(func)
CheckApiKey ==
  /\ ~ag_wrapped
  /\ ag_wrapped' = TRUE
  /\ \E key \in AppApiKeys : ag_app_api_key' = key
  /\ UNCHANGED <<ag_headers, ag_args, ag_invoked, ag_func_args,
                 ag_func_result, ag_outcome, ag_calls>>
  /\ UNCHANGED <<cfgvars, bgvars, dbvars>>

\* wrapper(*args, **kwargs) while the request carries the given headers
ApiKeyWrapper ==
  /\ ag_wrapped
  /\ ag_calls < MaxCalls
  /\ ag_calls' = ag_calls + 1
  /\ \E headers \in RequestHeaders, args \in CallArgs :
       LET api_key_header_value == DictGet(headers, X_API_KEY)
       IN /\ ag_headers' = headers
          /\ ag_args' = args
          /\ IF ApiKeyAccepted(api_key_header_value, ag_app_api_key)
             THEN \E r \in FuncResults(args) :
                    /\ ag_invoked' = 1
                    /\ ag_func_args' = args
                    /\ ag_func_result' = r
                    /\ ag_outcome' = r
             ELSE /\ ag_invoked' = 0
                  /\ ag_func_args' = << >>
                  /\ ag_func_result' = NoOutcome
                  /\ ag_outcome' =
                       Raised("AttributeError", INVALID_OR_MISSING_API_KEY)
  /\ UNCHANGED <<ag_wrapped, ag_app_api_key>>
  /\ UNCHANGED <<cfgvars, bgvars, dbvars>>

AgNext == CheckApiKey \/ ApiKeyWrapper

\* ----------------------------------- conditioned_dummy_response_decorator
\* python values a flag or a payload can be: bool, None, int, str
PyBool(b) == [type |-> "bool", b |-> b, n |-> 0, s |-> << >>]

PyNone == [type |-> "None", b |-> FALSE, n |-> 0, s |-> << >>]

PyInt(n) == [type |-> "int", b |-> FALSE, n |-> n, s |-> << >>]

PyStr(s) == [type |-> "str", b |-> FALSE, n |-> 0, s |-> s]

\* the truth value python gives a value in an if
Truthy(v) ==
  CASE v.type = "bool" -> v.b
    [] v.type = "None" -> FALSE
    [] v.type = "int" -> v.n # 0
    [] v.type = "str" -> Len(v.s) > 0

HTTP_OK == 200

DummyFlags ==
  { PyBool(TRUE), PyBool(FALSE), PyNone, PyInt(0), PyInt(1),
    PyStr(<< >>), PyStr(<<"false">>) }

DummyResponses == { PyNone, PyStr(<<"This is a dummy response">>), PyStr(<< >>) }

\* what the wrapped route function does: a (body, status) pair or a raise
RouteResults ==
  { Return(<<PyStr(<<"Original Response">>), 200>>),
    Return(<<PyNone, 404>>),
    Raised("RuntimeError", <<"route failed">>) }

\* the flag tested against None instead of for its truth
DummyModeNotNone(dummy_active) == dummy_active.type # "None"

\* dummy_mode = func_param["DUMMY_ACTIVE"]; if dummy_mode:
DummyMode(dummy_active) == Truthy(dummy_active)

\* conditioned_dummy_response(DUMMY_ACTIVE=flag, DUMMY_RESPONSE=r)(route_func)
ConditionedDummyResponse ==
  /\ ~bg_wrapped
  /\ bg_wrapped' = TRUE
  /\ \E flag \in DummyFlags : bg_dummy_active' = flag
  /\ \E r \in DummyResponses : bg_dummy_response' = r
  /\ UNCHANGED <<bg_invoked, bg_func_result, bg_outcome, bg_calls>>
  /\ UNCHANGED <<cfgvars, agvars, dbvars>>

\* wrapper(*args, **kwargs)
DummyWrapper ==
  /\ bg_wrapped
  /\ bg_calls < MaxCalls
  /\ bg_calls' = bg_calls + 1
  /\ IF DummyMode(bg_dummy_active)
     THEN /\ bg_invoked' = 0
          /\ bg_func_result' = NoOutcome
          /\ bg_outcome' = Return(<<bg_dummy_response, HTTP_OK>>)
     ELSE \E r \in RouteResults :
            /\ bg_invoked' = 1
            /\ bg_func_result' = r
            /\ bg_outcome' = r
  /\ UNCHANGED <<bg_wrapped, bg_dummy_active, bg_dummy_response>>
  /\ UNCHANGED <<cfgvars, agvars, dbvars>>

BgNext == ConditionedDummyResponse \/ DummyWrapper

\* ------------------------------------------------------ database_connection
Digits == <<"0", "1", "2", "3", "4", "5", "6", "7", "8", "9">>

DigitValue(c) == (CHOOSE i \in 1..10 : Digits[i] = c) - 1

IsDigit(c) == \E i \in 1..10 : Digits[i] = c

RECURSIVE IntOfDigits(_)
IntOfDigits(t) ==
  IF t = << >> THEN 0
  ELSE 10 * IntOfDigits(SubSeq(t, 1, Len(t) - 1)) + DigitValue(t[Len(t)])

\* int(x) for an optional str of decimal digits: TypeError for None,
\* ValueError for a str that is not a number
PyIntOf(x) ==
  IF x.isNone THEN [ok |-> FALSE, error |-> "TypeError", n |-> 0]
  ELSE IF x.s = << >> \/ \E i \in 1..Len(x.s) : ~IsDigit(x.s[i])
       THEN [ok |-> FALSE, error |-> "ValueError", n |-> 0]
  ELSE [ok |-> TRUE, error |-> NoError, n |-> IntOfDigits(x.s)]

\* "{}".format(x) of an optional str
Format(x) == IF x.isNone THEN <<"None">> ELSE x.s

\* _load_engine_string: "{0}://{1}:{2}@{3}:{4}/{5}"
LoadEngineString(app_config_) ==
  Format(DictGet(app_config_, <<"DRIVER">>)) \o <<"://">>
    \o Format(DictGet(app_config_, <<"USER">>)) \o <<":">>
    \o Format(DictGet(app_config_, <<"PASSWORD">>)) \o <<"@">>
    \o Format(DictGet(app_config_, <<"HOST">>)) \o <<":">>
    \o Format(DictGet(app_config_, <<"PORT">>)) \o <<"/">>
    \o Format(DictGet(app_config_, <<"DATABASE">>))

FAILED_TO_CONNECT == <<"Failed to connect to the Database">>

NOT_ESTABLISHED == <<"Database connection not established">>

MaxSessions == 2

BaseConfig ==
  [k \in { <<"DRIVER">>, <<"USER">>, <<"PASSWORD">>, <<"HOST">>, <<"PORT">>,
           <<"DATABASE">>, <<"TIMEOUT">> } |->
     CASE k = <<"DRIVER">> -> <<"postgresql">>
       [] k = <<"USER">> -> <<"test_user">>
       [] k = <<"PASSWORD">> -> <<"test_password">>
       [] k = <<"HOST">> -> <<"localhost">>
       [] k = <<"PORT">> -> <<"5432">>
       [] k = <<"DATABASE">> -> <<"test_db">>
       [] k = <<"TIMEOUT">> -> <<"1", "0">>]

Without(d, key) == [k \in DOMAIN d \ {key} |-> d[k]]

AppConfigs ==
  { BaseConfig,
    Without(BaseConfig, <<"TIMEOUT">>),
    Without(BaseConfig, <<"PASSWORD">>),
    Without(BaseConfig, <<"DRIVER">>),
    [BaseConfig EXCEPT ![<<"TIMEOUT">>] = <<"soon">>],
    [BaseConfig EXCEPT ![<<"TIMEOUT">>] = <<"5">>] }

NoEngine == [isNone |-> TRUE, url |-> << >>, connect_timeout |-> 0]

\* what engine.connect() does: a connection, a false value, or an exception
ConnectOutcomes == { "connection", "false", "OperationalError" }

\* the branch taken whatever the engine reports
ConnectedAlways(conn) == TRUE

\* if self.engine.connect():
Connected(conn) == conn = "connection"

\* an except block that prints and lets the constructor return
DbRaiseSwallow(e, m) ==
  /\ db_result' = Return(<<"DatabaseConnection">>)
  /\ db_pc' = "returned"

\* _connect, except Exception: print, then raise error
DbRaise(e, m) ==
  /\ db_result' = Raised(e, m)
  /\ db_pc' = "failed"

\* DatabaseConnection(app_config): __init__ up to the call of _connect; each
\* construction is a new object
DatabaseConnectionInit ==
  /\ db_pc \in {"idle", "returned", "failed"}
  /\ db_constructions < MaxConstructions
  /\ db_constructions' = db_constructions + 1
  /\ \E c \in AppConfigs : app_config' = c
  /\ engine' = NoEngine
  /\ session_factory' = "None"
  /\ metadata' = "None"
  /\ db_connected' = "none"
  /\ db_result' = NoOutcome
  /\ db_session' = NoOutcome
  /\ db_sessions' = 0
  /\ db_pc' = "create_engine"
  /\ UNCHANGED <<cfgvars, agvars, bgvars>>

\* _connect: the engine string, int(TIMEOUT) and create_engine
CreateEngine ==
  /\ db_pc = "create_engine"
  /\ LET engine_string == LoadEngineString(app_config)
         timeout == PyIntOf(DictGet(app_config, <<"TIMEOUT">>))
     IN IF ~timeout.ok
        THEN /\ DbRaise(timeout.error, << >>)
             /\ UNCHANGED engine
        ELSE \/ /\ engine' = [isNone |-> FALSE, url |-> engine_string,
                              connect_timeout |-> timeout.n]
                /\ db_pc' = "connect"
                /\ UNCHANGED db_result
             \/ /\ DbRaise("ArgumentError", << >>)
                /\ UNCHANGED engine
  /\ UNCHANGED <<app_config, session_factory, metadata, db_connected,
                 db_session, db_sessions, db_constructions>>
  /\ UNCHANGED <<cfgvars, agvars, bgvars>>

\* _connect: engine.connect(), then the session factory or the raise
EngineConnect ==
  /\ db_pc = "connect"
  /\ \E conn \in ConnectOutcomes :
       /\ db_connected' = conn
       /\ IF conn = "OperationalError"
          THEN /\ DbRaise("OperationalError", << >>)
               /\ UNCHANGED session_factory
          ELSE IF Connected(conn)
          THEN /\ session_factory' = "sessionmaker"
               /\ db_pc' = "reflect"
               /\ UNCHANGED db_result
          ELSE /\ DbRaise("ConnectionError", FAILED_TO_CONNECT)
               /\ UNCHANGED session_factory
  /\ UNCHANGED <<app_config, engine, metadata, db_session, db_sessions,
                 db_constructions>>
  /\ UNCHANGED <<cfgvars, agvars, bgvars>>

\* _connect: Base.prepare(self.engine, reflect=True); self.metadata = Base
Reflect ==
  /\ db_pc = "reflect"
  /\ \/ /\ metadata' = "Base"
        /\ db_result' = Return(<<"DatabaseConnection">>)
        /\ db_pc' = "returned"
     \/ /\ DbRaise("SQLAlchemyError", << >>)
        /\ UNCHANGED metadata
  /\ UNCHANGED <<app_config, engine, session_factory, db_connected,
                 db_session, db_sessions, db_constructions>>
  /\ UNCHANGED <<cfgvars, agvars, bgvars>>

\* get_session() on the object of the last construction, as soon as its
\* constructor has ended, by return or by raise
GetSession ==
  /\ db_pc \in {"returned", "failed"}
  /\ db_sessions < MaxSessions
  /\ db_sessions' = db_sessions + 1
  /\ db_session' =
       IF session_factory # "None"
       THEN Return(<<"Session">>)
       ELSE Raised("ConnectionError", NOT_ESTABLISHED)
  /\ UNCHANGED <<app_config, engine, session_factory, metadata, db_connected,
                 db_result, db_pc, db_constructions>>
  /\ UNCHANGED <<cfgvars, agvars, bgvars>>

DbNext ==
  \/ DatabaseConnectionInit
  \/ CreateEngine
  \/ EngineConnect
  \/ Reflect
  \/ GetSession

\* ---------------------------------------------------------- specifications
vars == <<cfgvars, agvars, bgvars, dbvars>>

\* the state before any construction and any decoration
Init ==
  /\ environ = EmptyDict
  /\ ambient = environ
  /\ config_file = NoFile
  /\ configurations = EmptyDict
  /\ configuration = EmptyDict
  /\ shared_secrets = EmptyDict
  /\ secret_name_list = << >>
  /\ region_name = None
  /\ idx = 0
  /\ remote_calls = << >>
  /\ fetched = << >>
  /\ fault = NoError
  /\ result = Pending
  /\ log = << >>
  /\ pc = "idle"
  /\ constructions = 0
  /\ handled = NotHandled
  /\ handle_calls = 0
  /\ ag_wrapped = FALSE
  /\ ag_app_api_key = None
  /\ ag_headers = EmptyDict
  /\ ag_args = << >>
  /\ ag_invoked = 0
  /\ ag_func_args = << >>
  /\ ag_func_result = NoOutcome
  /\ ag_outcome = NoOutcome
  /\ ag_calls = 0
  /\ bg_wrapped = FALSE
  /\ bg_dummy_active = PyNone
  /\ bg_dummy_response = PyNone
  /\ bg_invoked = 0
  /\ bg_func_result = NoOutcome
  /\ bg_outcome = NoOutcome
  /\ bg_calls = 0
  /\ app_config = EmptyDict
  /\ engine = NoEngine
  /\ session_factory = "None"
  /\ metadata = "None"
  /\ db_connected = "none"
  /\ db_result = NoOutcome
  /\ db_pc = "idle"
  /\ db_session = NoOutcome
  /\ db_sessions = 0
  /\ db_constructions = 0

Spec == Init /\ [][CfgNext]_vars

SpecAccessGuard == Init /\ [][AgNext]_vars

SpecBypassGuard == Init /\ [][BgNext]_vars

SpecGateway == Init /\ [][DbNext]_vars

\* ------------------------------------------------------------ properties
FetchedKeys == UNION { DOMAIN fetched[i] : i \in 1..Len(fetched) }

\* the last fetched mapping that defines k
LastDefining(k) ==
  CHOOSE i \in 1..Len(fetched) :
    /\ k \in DOMAIN fetched[i]
    /\ \A j \in (i + 1)..Len(fetched) : k \notin DOMAIN fetched[j]

\* C1: a construction that succeeds yields the local mapping overwritten by
\* the fetched secrets: a key some secret defines has the value of the last
\* secret defining it, any other key has its value of the local mapping (the
\* environment as loaded), and the store has no further key.
C1_StoreIsLocalThenSecrets ==
  result.kind = "store" =>
    /\ configuration = environ
    /\ DOMAIN configurations = DOMAIN configuration \cup FetchedKeys
    /\ \A k \in DOMAIN configurations :
         IF k \in FetchedKeys
         THEN configurations[k] = fetched[LastDefining(k)][k]
         ELSE configurations[k] = configuration[k]

C1_Witness ==
  /\ result.kind = "store"
  /\ \E k \in DOMAIN configuration \cap FetchedKeys :
       configurations[k] # configuration[k]
  /\ \E k \in DOMAIN configuration : k \notin FetchedKeys

\* C2: an exception raised by the local load or by the secret step ends the
\* construction with that same exception raised to the caller; a store is
\* returned only by a construction in which nothing was raised.
C2_FailureSurfaces ==
  /\ fault # NoError =>
       /\ result.kind = "raised"
       /\ result.error = fault
       /\ pc = "failed"
  /\ result.kind = "store" => fault = NoError /\ pc = "done"

C2_Witness ==
  /\ pc = "failed"
  /\ fault = "ClientError"
  /\ result = [kind |-> "raised", error |-> "ClientError"]
  /\ shared_secrets # EmptyDict

\* C3 as stated: after the local load of a file, every key the file defines
\* is in the result with the value the file defines, whatever the
\* environment held before.
C3_FileValuesAlways ==
  (pc = "load_secrets" /\ config_file.kind = "file") =>
    \A k \in DOMAIN DotenvValues(config_file.lines) :
      /\ k \in DOMAIN configuration
      /\ configuration[k] = DotenvValues(config_file.lines)[k]

\* C3 amended: every key the file defines is in the result; its value is the
\* one the file defines unless the environment already held the key before
\* the load, in which case it is the value the environment held.
C3_FileValuesUnlessPreset ==
  (pc = "load_secrets" /\ config_file.kind = "file") =>
    \A k \in DOMAIN DotenvValues(config_file.lines) :
      /\ k \in DOMAIN configuration
      /\ configuration[k] =
           IF k \in DOMAIN ambient THEN ambient[k]
           ELSE DotenvValues(config_file.lines)[k]

C3_Witness ==
  /\ pc = "load_secrets"
  /\ config_file.kind = "file"
  /\ \E k \in DOMAIN DotenvValues(config_file.lines) \cap DOMAIN ambient :
       ambient[k] # DotenvValues(config_file.lines)[k]
  /\ \E k \in DOMAIN DotenvValues(config_file.lines) : k \notin DOMAIN ambient

\* C4: a client error of the remote store ends the secret step at once: the
\* failing request is the last one made, the construction has failed with
\* the client error, and the store holds the local mapping only.
C4_ClientErrorAborts ==
  \A i \in 1..Len(remote_calls) :
    remote_calls[i].outcome = "ClientError" =>
      /\ i = Len(remote_calls)
      /\ i = idx
      /\ pc = "failed"
      /\ fault = "ClientError"
      /\ result.kind = "raised"
      /\ configurations = configuration

C4_Witness ==
  /\ Len(remote_calls) = 2
  /\ remote_calls[2].outcome = "ClientError"
  /\ Len(secret_name_list) = 3
  /\ shared_secrets # EmptyDict
  /\ pc = "failed"

\* the entry the loop is at names no secret: a null or empty name, or a
\* missing or empty region
NoSecretEntry ==
  /\ idx \in 1..Len(secret_name_list)
  /\ \/ secret_name_list[idx].isNone
     \/ secret_name_list[idx].s = << >>
     \/ region_name.isNone
     \/ region_name.s = << >>

\* C5: an entry that names no secret is not an error: the secret step never
\* fails at such an entry.
C5_NoSecretIsNotAnError == ~(pc = "failed" /\ NoSecretEntry)

\* C9: without the name list key in the local mapping the secret step makes
\* no remote call, fetches nothing and cannot fail, and the returned store
\* is the local mapping.
C9_NoListNoRemoteCalls ==
  SHARED_SECRET_NAMES_LIST \notin DOMAIN configuration =>
    /\ remote_calls = << >>
    /\ shared_secrets = EmptyDict
    /\ idx = 0
    /\ fault \in {NoError, "OSError"}
    /\ result.kind = "store" => configurations = configuration

C9_Witness ==
  /\ result.kind = "store"
  /\ SHARED_SECRET_NAMES_LIST \notin DOMAIN configuration
  /\ configuration # EmptyDict
  /\ configurations = configuration

\* C10: the requests follow the order of the decoded array, one per entry,
\* all of them once the step has returned; in the aggregate a key has the
\* value of the last fetched secret that defines it.
C10_ArrayOrderLaterWins ==
  /\ Len(remote_calls) <= Len(secret_name_list)
  /\ \A i \in 1..Len(remote_calls) :
       /\ ~secret_name_list[i].isNone
       /\ remote_calls[i].name = secret_name_list[i].s
  /\ (result.kind = "store" /\ idx > 0) =>
       /\ Len(remote_calls) = Len(secret_name_list)
       /\ Len(fetched) = Len(secret_name_list)
  /\ DOMAIN shared_secrets = FetchedKeys
  /\ \A k \in DOMAIN shared_secrets :
       shared_secrets[k] = fetched[LastDefining(k)][k]

C10_Witness ==
  /\ result.kind = "store"
  /\ secret_name_list = <<Some(<<"a">>), Some(<<"b">>)>>
  /\ Len(remote_calls) = 2
  /\ remote_calls[1].name = <<"a">>
  /\ remote_calls[2].name = <<"b">>
  /\ fetched[1] = [k \in {<<"x">>} |-> <<"1">>]
  /\ fetched[2] = [k \in {<<"x">>, <<"y">>} |-> IF k = <<"x">> THEN <<"2">> ELSE <<"3">>]
  /\ shared_secrets = [k \in {<<"x">>, <<"y">>} |-> IF k = <<"x">> THEN <<"2">> ELSE <<"3">>]

\* the request carries the header, a key is expected, and the two are equal
HeaderMatches ==
  /\ X_API_KEY \in DOMAIN ag_headers
  /\ ~ag_app_api_key.isNone
  /\ ag_headers[X_API_KEY] = ag_app_api_key.s

\* C6: a call of the guarded handler invokes the handler, once, with the
\* arguments of the call and gives what the handler gave, exactly when the
\* X-API-Key header is present, a key is expected and the two are equal;
\* any other call raises AttributeError with the fixed message and does not
\* invoke the handler.
C6_AccessGuard ==
  ag_calls > 0 =>
    /\ HeaderMatches =>
         /\ ag_invoked = 1
         /\ ag_func_args = ag_args
         /\ ag_func_result.kind # "none"
         /\ ag_outcome = ag_func_result
    /\ ~HeaderMatches =>
         /\ ag_invoked = 0
         /\ ag_outcome =
              [kind |-> "raise", value |-> << >>, error |-> "AttributeError",
               message |-> <<"API key is invalid or is missing.">>]

C6_Witness ==
  /\ ag_calls > 1
  /\ HeaderMatches
  /\ ag_invoked = 1
  /\ ag_outcome.kind = "return"
  /\ ag_outcome.value = <<"Function executed", "2">>

\* C7: with the flag True a call returns (substitute payload, 200) and does
\* not invoke the handler, whatever the payload, None included; with the
\* flag False a call invokes the handler exactly once and gives what the
\* handler gave.
C7_BypassGuard ==
  bg_calls > 0 =>
    /\ bg_dummy_active = PyBool(TRUE) =>
         /\ bg_invoked = 0
         /\ bg_outcome.kind = "return"
         /\ bg_outcome.value = <<bg_dummy_response, 200>>
    /\ bg_dummy_active = PyBool(FALSE) =>
         /\ bg_invoked = 1
         /\ bg_func_result.kind # "none"
         /\ bg_outcome = bg_func_result

C7_Witness ==
  /\ bg_calls > 0
  /\ bg_dummy_active = PyBool(TRUE)
  /\ bg_dummy_response = PyNone
  /\ bg_invoked = 0
  /\ bg_outcome.value = <<PyNone, 200>>

\* C8: when engine.connect() reports not connected the construction raises
\* ConnectionError "Failed to connect to the Database" and neither the
\* session factory nor the reflected schema is set; get_session on an object
\* without a session factory raises ConnectionError "Database connection not
\* established".
C8_GatewayFailures ==
  /\ db_connected = "false" =>
       /\ db_pc = "failed"
       /\ db_result.kind = "raise"
       /\ db_result.error = "ConnectionError"
       /\ db_result.message = <<"Failed to connect to the Database">>
       /\ session_factory = "None"
       /\ metadata = "None"
  /\ (db_session.kind # "none" /\ session_factory = "None") =>
       /\ db_session.kind = "raise"
       /\ db_session.error = "ConnectionError"
       /\ db_session.message = <<"Database connection not established">>

C8_Witness ==
  /\ db_connected = "false"
  /\ db_pc = "failed"
  /\ db_session.kind = "raise"
  /\ session_factory = "None"

\* the last call of _handle_secrets_from_aws had a None or empty name or a
\* None or empty region
NoSecretArgs ==
  \/ handled.secret_name.isNone
  \/ handled.secret_name.s = << >>
  \/ handled.region_name.isNone
  \/ handled.region_name.s = << >>

\* C11: a call of _handle_secrets_from_aws with a None or empty name or a
\* None or empty region gives None and makes no request to the remote store
\* (no client is created), in the loop of the secret step and when called
\* on a loader.
C11_NoFetchWithoutNameOrRegion ==
  (handled.made /\ NoSecretArgs) =>
    /\ handled.kind = "None"
    /\ handled.requests = 0

C11_Witness ==
  /\ handle_calls = 1
  /\ handled.made
  /\ handled.secret_name = Some(<<"a">>)
  /\ handled.region_name = Some(<< >>)
  /\ handled.kind = "None"
  /\ handled.requests = 0

\* C12: an object that DatabaseConnection(app_config) returned has its
\* engine, its session factory and its reflected schema all set; a
\* construction that failed anywhere in _connect raised instead of
\* returning; get_session on a returned object gives a session.
C12_ReturnedGatewayIsConnected ==
  /\ db_result.kind = "return" <=> db_pc = "returned"
  /\ db_pc = "failed" => db_result.kind = "raise"
  /\ db_pc = "returned" =>
       /\ ~engine.isNone
       /\ session_factory # "None"
       /\ metadata # "None"
       /\ db_connected = "connection"
       /\ db_session.kind # "none" => db_session = Return(<<"Session">>)

C12_Witness ==
  /\ db_pc = "returned"
  /\ db_sessions > 0
  /\ db_session.kind = "return"
  /\ ~engine.isNone
  /\ session_factory = "sessionmaker"
  /\ metadata = "Base"

\* one step keeps every variable of the environment with its value; the
\* local load leaves every key of the file in the environment; no step
\* after the local load (the secret step, a failure, a call on the loader)
\* writes the environment; a returned store has every key of the environment
EnvironStep ==
  /\ \A k \in DOMAIN environ : k \in DOMAIN environ' /\ environ'[k] = environ[k]
  /\ (pc = "load_env" /\ pc' = "load_secrets") =>
       DOMAIN DotenvValues(config_file.lines) \subseteq DOMAIN environ'
  /\ pc \notin {"idle", "load_env"} => environ' = environ
  /\ result'.kind = "store" => DOMAIN environ' \subseteq DOMAIN configurations'

\* C13: the keys a local load puts into the process environment are never
\* taken back, whether the construction then succeeds or fails, so every
\* later returned store, whatever its source, has them; the secret step
\* writes nothing to the environment.
C13_EnvironNeverRolledBack == [][EnvironStep]_vars

C13_Witness ==
  /\ constructions = 2
  /\ config_file = NoFile
  /\ result.kind = "store"
  /\ <<"y">> \in DOMAIN configurations
  /\ configurations[<<"y">>] = <<"0">>
  /\ environ[<<"y">>] = <<"0">>
  /\ <<"x">> \in FetchedKeys
  /\ <<"x">> \notin DOMAIN environ

====
